---- MODULE Spec2Model ----
(***************************************************************************)
(* Model of main.py: the capture loop (capture_images), the EXIF writer    *)
(* (convert / custom_capture), the EXIF reader                             *)
(* (extract_coordinates_and_timestamp), haversine_distance,                *)
(* calculate_speed and the aggregation loop of main.                       *)
(*                                                                         *)
(* Numbers.  Python floats are modelled in fixed point:                    *)
(*   - angles in degrees are integers in units of 1/36000 degree (a tenth  *)
(*     of an arc second, the precision convert() keeps);                   *)
(*   - radians, sines, cosines and square roots are scaled by Scale;       *)
(*   - the haversine term a is scaled by Scale * Scale;                    *)
(*   - distances are in units of 1/Scale km, speeds in 1/Scale km/s;       *)
(*   - the wall clock counts ticks of 1/TicksPerSecond second, EXIF times  *)
(*     are whole seconds (the format has no sub-second field).             *)
(***************************************************************************)
EXTENDS Integers, Sequences, FiniteSets, TLC

VARIABLES
    pc,                 \* position in main / capture_images
    now,                \* the wall clock, datetime.now(), in ticks
    start_time,         \* capture_images: start_time
    images,             \* capture_images / main: images (list of file paths)
    timestamps,         \* capture_images / main: timestamps
    total_storage_size, \* capture_images: total_storage_size (MB)
    files,              \* the file system: path -> EXIF data of the stored image
    returned_none,      \* capture_images returned (None, None)
    i,                  \* main: loop index of "for i in range(1, len(images))"
    speed_data,         \* main: speed_data
    pairs_added,        \* history: the loop indexes i whose pair was appended
    zero_division,      \* history: times the "except ZeroDivisionError" handler ran
    avg_speed,          \* main: avg_speed
    result,             \* result.txt: <<>> until written, then <<value>>
    removed             \* main: number of files os.remove()d by the pruning loop

vars == <<pc, now, start_time, images, timestamps, total_storage_size, files,
          returned_none, i, speed_data, pairs_added, zero_division, avg_speed,
          result, removed>>

-----------------------------------------------------------------------------
(* Parameters of capture_images as main calls it. *)

\* max_images (default 42), scaled down so that the image sequences can be enumerated
max_images == 3
max_storage_size == 250
max_capture_duration == 480
capture_interval == 5
\* the literal 42 of the pruning loop, which is the default of max_images
retain_limit == max_images

Scale == 10 ^ 4
TicksPerSecond == 1 + 1
UnitsPerDegree == 36 * 1000

-----------------------------------------------------------------------------
(* Inputs *)

\* positions iss.coordinates() can return: <<latitude, longitude>>, signed,
\* in units of 1/36000 degree:  51 30' 0.0" N 0 E   and   51 30' 0.0" S 1 W
Locations == { <<1854000, 0>>, <<-1854000, -36000>> }

\* DateTimeOriginal strings the camera can write, as <<HH, MM, SS>> of one day
ExifTimes == { <<0, 0, 55>>, <<0, 1, 0>>, <<0, 1, 10>> }

\* os.path.getsize(image_file) / (1024 * 1024), in MB
FileSizes == { 1, 249 }

\* what the wall clock does during sleep(capture_interval), in ticks beyond the
\* interval: it is set back by the interval less one tick, runs normally, or
\* jumps past max_capture_duration
ClockSteps == { 1 - capture_interval * TicksPerSecond, 0,
                max_capture_duration * TicksPerSecond }

-----------------------------------------------------------------------------
(* Arithmetic helpers *)

Abs(x) == IF x < 0 THEN -x ELSE x

\* float division of scaled integers, truncated towards zero; b # 0
Quot(a, b) ==
    IF b > 0
    THEN (IF a >= 0 THEN a \div b ELSE -((-a) \div b))
    ELSE (IF a >= 0 THEN -(a \div (-b)) ELSE (-a) \div (-b))

\* math.radians: 1/36000 degree -> radians scaled by Scale
Radians(x) == Quot(Quot(x, 360) * 17453, Scale)

RECURSIVE SinTerms(_, _, _, _)
SinTerms(x, term, k, n) ==
    IF n = 0 THEN 0
    ELSE term + SinTerms(x, -Quot(Quot(Quot(term * x, Scale) * x, Scale),
                                  (2 * k) * (2 * k + 1)), k + 1, n - 1)

\* math.sin of an angle in radians scaled by Scale (Taylor series)
Sin(x) == SinTerms(x, x, 1, 6)

RECURSIVE CosTerms(_, _, _, _)
CosTerms(x, term, k, n) ==
    IF n = 0 THEN 0
    ELSE term + CosTerms(x, -Quot(Quot(Quot(term * x, Scale) * x, Scale),
                                  (2 * k - 1) * (2 * k)), k + 1, n - 1)

\* math.cos of an angle in radians scaled by Scale (Taylor series)
Cos(x) == CosTerms(x, Scale, 1, 6)

RECURSIVE SqrtSearch(_, _, _)
SqrtSearch(n, lo, hi) ==
    IF lo >= hi THEN lo
    ELSE LET mid == (lo + hi + 1) \div 2
         IN  IF mid * mid <= n THEN SqrtSearch(n, mid, hi)
             ELSE SqrtSearch(n, lo, mid - 1)

\* math.sqrt of a value scaled by Scale*Scale, result scaled by Scale
Sqrt(n) == SqrtSearch(n, 0, 2 * Scale)

\* atan(t) for 0 <= t <= 1, t and result scaled by Scale: two halvings of the
\* angle, atan(t) = 2 atan(t / (1 + sqrt(1 + t*t))), then the Taylor series
AtanHalf(t) == Quot(t * Scale, Scale + Sqrt(Scale * Scale + t * t))
AtanSeries(u) ==
    LET u2 == Quot(u * u, Scale)
        u3 == Quot(u * u2, Scale)
        u5 == Quot(u3 * u2, Scale)
    IN  u - Quot(u3, 3) + Quot(u5, 5)
Atan(t) == 4 * AtanSeries(AtanHalf(AtanHalf(t)))

\* math.atan2(y, x) for y >= 0, x >= 0, scaled by Scale
Atan2(y, x) ==
    IF y = 0 THEN 0
    ELSE IF y <= x THEN Atan(Quot(y * Scale, x))
    ELSE 15708 - Atan(Quot(x * Scale, y))   \* pi/2 - atan(x/y)

-----------------------------------------------------------------------------
(* EXIF writer: convert and custom_capture *)

GPSInfoTag == 34853            \* 0x8825
DateTimeOriginalTag == 36867   \* 0x9003

\* convert(angle): angle.signed_dms() and the rationals "d/1,m/1,s*10/10",
\* each rational as <<numerator, denominator>>
convert(angle) ==
    LET mag == Abs(angle)
        degrees == mag \div UnitsPerDegree
        minutes == (mag % UnitsPerDegree) \div 600
        seconds10 == mag % 600
    IN  [negative |-> angle < 0,
         exif_angle |-> << <<degrees, 1>>, <<minutes, 1>>, <<seconds10, 10>> >>]

\* The EXIF data of the file custom_capture stores for a position; the GPS block
\* is indexed by the EXIF GPS tag ids 1..4.  dto is the DateTimeOriginal the
\* camera adds; intact = FALSE is a file whose EXIF data cannot be read back.
custom_capture(location, dto, intact) ==
    LET lat == convert(location[1])
        lon == convert(location[2])
    IN  [tags |-> IF intact THEN {GPSInfoTag, DateTimeOriginalTag} ELSE {},
         gps  |-> << IF lat.negative THEN "S" ELSE "N", lat.exif_angle,
                     IF lon.negative THEN "W" ELSE "E", lon.exif_angle >>,
         dto  |-> dto]

-----------------------------------------------------------------------------
(* EXIF reader: extract_coordinates_and_timestamp *)

\* the value of an EXIF rational, as a float number of 1/36000 degree when the
\* rational counts units of `unit` (36000: degrees, 600: minutes, 10: seconds)
RationalIn(r, unit) == Quot(r[1] * unit, r[2])

\* gps_info[k][0] + gps_info[k][1] / 60 + gps_info[k][2] / 3600
DecimalDegrees(dms) ==
    RationalIn(dms[1], UnitsPerDegree) + RationalIn(dms[2], 600) + RationalIn(dms[3], 10)

\* datetime.strptime(timestamp_str, '%Y:%m:%d %H:%M:%S'), in seconds of the day
strptime(t) == t[1] * 3600 + t[2] * 60 + t[3]

None == [ok |-> FALSE, latitude |-> 0, longitude |-> 0, timestamp |-> 0]

extract_coordinates_and_timestamp(exif_data) ==
    IF GPSInfoTag \in exif_data.tags /\ DateTimeOriginalTag \in exif_data.tags
    THEN LET gps_info == exif_data.gps
             latitude == DecimalDegrees(gps_info[2])
             longitude == DecimalDegrees(gps_info[4])
         IN  [ok |-> TRUE,
              latitude  |-> IF gps_info[3] = "S" THEN -latitude ELSE latitude,
              longitude |-> IF gps_info[1] = "W" THEN -longitude ELSE longitude,
              timestamp |-> strptime(exif_data.dto)]
    ELSE None

-----------------------------------------------------------------------------
(* haversine_distance and calculate_speed *)

R == 6779

haversine_distance(lat1, lon1, lat2, lon2) ==
    LET rlat1 == Radians(lat1)
        rlon1 == Radians(lon1)
        rlat2 == Radians(lat2)
        rlon2 == Radians(lon2)
        dlat == rlat2 - rlat1
        dlon == rlon2 - rlon1
        sin_dlat == Sin(Quot(dlat, 2))
        sin_dlon == Sin(Quot(dlon, 2))
        a == sin_dlat * sin_dlat
             + Quot(Quot(Cos(rlat1) * Cos(rlat2), Scale) * sin_dlon, Scale) * sin_dlon
        c == 2 * Atan2(Sqrt(a), Sqrt(Scale * Scale - a))
    IN  R * c

\* variant: the speed keeps the sign of the time difference
calculate_speed_NoAbs(distance, time_difference) ==
    IF time_difference = 0
    THEN [raised |-> TRUE, speed |-> 0]
    ELSE [raised |-> FALSE, speed |-> Quot(distance, time_difference)]

\* calculate_speed: raised = TRUE is the ZeroDivisionError of distance / 0.0
calculate_speed(distance, time_difference) ==
    IF time_difference = 0
    THEN [raised |-> TRUE, speed |-> 0]
    ELSE [raised |-> FALSE, speed |-> Abs(Quot(distance, time_difference))]

-----------------------------------------------------------------------------
(* capture_images *)

\* the name strftime('%Y%m%d_%H%M%S') gives a timestamp: its whole seconds
image_name(timestamp) == timestamp \div TicksPerSecond

\* (timestamp - start_time).total_seconds() > max_capture_duration
DurationReached(timestamp, start) ==
    timestamp - start > max_capture_duration * TicksPerSecond

\* variant: the image count is compared with <= (one capture too many)
LoopCondition_OffByOne(total, n) == total < max_storage_size /\ n <= max_images

\* the condition of the while loop
LoopCondition(total, n) == total < max_storage_size /\ n < max_images

\* what the camera can store at one capture: every position and EXIF time with
\* readable EXIF data, and one file whose EXIF data cannot be read back
CaptureInputs ==
    { <<l, t, TRUE>> : l \in Locations, t \in ExifTimes }
    \cup { <<l, t, FALSE>> : l \in { <<1854000, 0>> }, t \in { <<0, 0, 55>> } }

StoreFile(fs, name, exif_data) ==
    [n \in DOMAIN fs \cup {name} |-> IF n = name THEN exif_data ELSE fs[n]]

Init ==
    /\ pc = "capture"
    /\ now = 0
    /\ start_time = 0
    /\ images = <<>>
    /\ timestamps = <<>>
    /\ total_storage_size = 0
    /\ files = <<>>
    /\ returned_none = FALSE
    /\ i = 0
    /\ speed_data = <<>>
    /\ pairs_added = {}
    /\ zero_division = 0
    /\ avg_speed = 0
    /\ result = <<>>
    /\ removed = 0

\* one iteration of the while loop
CaptureIteration ==
    /\ pc = "capture"
    /\ LoopCondition(total_storage_size, Len(images))
    /\ \E in \in CaptureInputs, size \in FileSizes, step \in ClockSteps :
         LET timestamp == now
             image_file == image_name(timestamp)
         IN  /\ files' = StoreFile(files, image_file, custom_capture(in[1], in[2], in[3]))
             /\ images' = Append(images, image_file)
             /\ timestamps' = Append(timestamps, timestamp)
             /\ total_storage_size' = total_storage_size + size
             /\ IF DurationReached(timestamp, start_time)
                THEN /\ pc' = "return"
                     /\ now' = now
                ELSE /\ pc' = "capture"
                     /\ now' = now + capture_interval * TicksPerSecond + step
    /\ UNCHANGED <<start_time, returned_none, i, speed_data, pairs_added,
                   zero_division, avg_speed, result, removed>>

\* the loop ends (its condition is false, or break): return images, timestamps
CaptureReturn ==
    /\ \/ pc = "return"
       \/ pc = "capture" /\ ~LoopCondition(total_storage_size, Len(images))
    /\ pc' = "main"
    /\ UNCHANGED <<now, start_time, images, timestamps, total_storage_size, files,
                   returned_none, i, speed_data, pairs_added, zero_division,
                   avg_speed, result, removed>>

\* custom_capture raises (camera or file system error): except Exception,
\* return None, None
CaptureError ==
    /\ pc = "capture"
    /\ LoopCondition(total_storage_size, Len(images))
    /\ pc' = "main"
    /\ returned_none' = TRUE
    /\ images' = <<>>          \* main's images is None: falsy, like the empty list
    /\ timestamps' = <<>>
    /\ UNCHANGED <<now, start_time, total_storage_size, files, i, speed_data,
                   pairs_added, zero_division, avg_speed, result, removed>>

-----------------------------------------------------------------------------
(* main *)

\* variant: only the first extraction is tested
BothAvailable_FirstOnly(data1, data2) == data1.ok

\* "if data1 and data2": both extractions returned a tuple
BothAvailable(data1, data2) == data1.ok /\ data2.ok

\* variants: no pair is skipped; the zero distance test is missing; the zero
\* elapsed time test is missing
SkipPair_Never(image1, image2, distance, time_difference) == FALSE
SkipPair_NoDistance(image1, image2, distance, time_difference) ==
    image1 = image2 \/ time_difference = 0
SkipPair_NoTime(image1, image2, distance, time_difference) ==
    image1 = image2 \/ distance = 0

\* the condition under which main skips a pair ("continue")
SkipPair(image1, image2, distance, time_difference) ==
    image1 = image2 \/ distance = 0 \/ time_difference = 0

RECURSIVE SumSpeeds(_)
SumSpeeds(data) == IF data = <<>> THEN 0 ELSE Head(data)[3] + SumSpeeds(Tail(data))

\* variant: the sum is not divided by the number of samples
AverageSpeed_NoDivision(data) == SumSpeeds(data)

\* avg_speed = 0; if len(speed_data) > 0: sum(entry[2] ...) / len(speed_data)
AverageSpeed(data) == IF Len(data) > 0 THEN Quot(SumSpeeds(data), Len(data)) ELSE 0

\* while len(images) > 42: os.remove(images.pop(0))
RECURSIVE Pruned(_)
Pruned(imgs) == IF Len(imgs) > retain_limit THEN Pruned(Tail(imgs)) ELSE imgs

\* "if images and timestamps": with no image nothing more is done
MainStart ==
    /\ pc = "main"
    /\ IF images # <<>> /\ timestamps # <<>>
       THEN /\ pc' = "loop"
            /\ i' = 1
            /\ speed_data' = <<>>
       ELSE /\ pc' = "done"
            /\ UNCHANGED <<i, speed_data>>
    /\ UNCHANGED <<now, start_time, images, timestamps, total_storage_size, files,
                   returned_none, pairs_added, zero_division, avg_speed, result,
                   removed>>

\* one iteration of "for i in range(1, len(images))": Python's images[i - 1] and
\* images[i] are images[i] and images[i + 1] here
LoopIteration ==
    /\ pc = "loop"
    /\ i < Len(images)
    /\ LET data1 == extract_coordinates_and_timestamp(files[images[i]])
           data2 == extract_coordinates_and_timestamp(files[images[i + 1]])
           distance == haversine_distance(data1.latitude, data1.longitude,
                                          data2.latitude, data2.longitude)
           time_difference == data2.timestamp - data1.timestamp
           called == calculate_speed(distance, time_difference)
       IN  IF ~BothAvailable(data1, data2)
           THEN UNCHANGED <<speed_data, pairs_added, zero_division>>
           ELSE IF SkipPair(images[i], images[i + 1], distance, time_difference)
           THEN UNCHANGED <<speed_data, pairs_added, zero_division>>
           ELSE IF called.raised
           THEN /\ zero_division' = zero_division + 1
                /\ UNCHANGED <<speed_data, pairs_added>>
           ELSE /\ speed_data' = Append(speed_data,
                                        <<distance, time_difference, called.speed>>)
                /\ pairs_added' = pairs_added \cup {i}
                /\ UNCHANGED zero_division
    /\ i' = i + 1
    /\ UNCHANGED <<pc, now, start_time, images, timestamps, total_storage_size,
                   files, returned_none, avg_speed, result, removed>>

\* after the loop: the average, log_average_speed_to_txt and the pruning loop
MainFinish ==
    /\ pc = "loop"
    /\ i >= Len(images)
    /\ avg_speed' = AverageSpeed(speed_data)
    /\ result' = <<AverageSpeed(speed_data)>>
    /\ images' = Pruned(images)
    /\ removed' = Len(images) - Len(Pruned(images))
    /\ files' = [n \in { m \in DOMAIN files :
                          \A k \in 1..(Len(images) - Len(Pruned(images))) :
                              images[k] # m } |-> files[n]]
    /\ pc' = "done"
    /\ UNCHANGED <<now, start_time, timestamps, total_storage_size, returned_none,
                   i, speed_data, pairs_added, zero_division>>

Next ==
    \/ CaptureIteration
    \/ CaptureReturn
    \/ CaptureError
    \/ MainStart
    \/ LoopIteration
    \/ MainFinish

Spec == Init /\ [][Next]_vars

-----------------------------------------------------------------------------
(* Properties *)

\* the decoded fix of the k-th image, and the pair (k, k + 1)
Fix(k) == extract_coordinates_and_timestamp(files[images[k]])
PairAvailable(k) == Fix(k).ok /\ Fix(k + 1).ok
PairDistance(k) == haversine_distance(Fix(k).latitude, Fix(k).longitude,
                                      Fix(k + 1).latitude, Fix(k + 1).longitude)
PairElapsed(k) == Fix(k + 1).timestamp - Fix(k).timestamp
Readable(n) == GPSInfoTag \in files[n].tags /\ DateTimeOriginalTag \in files[n].tags
InAggregation == pc \in {"loop", "done"} /\ ~returned_none

\* C1: for every stored image whose GPS block can be read, the decoded latitude
\* is negated exactly when the latitude reference (entry 1) is "S" and the
\* decoded longitude exactly when the longitude reference (entry 3) is "W".
C1_SignFollowsReference ==
    \A n \in DOMAIN files :
        Readable(n) =>
            LET g == files[n].gps
                d == extract_coordinates_and_timestamp(files[n])
            IN  /\ d.latitude = IF g[1] = "S" THEN -DecimalDegrees(g[2])
                                ELSE DecimalDegrees(g[2])
                /\ d.longitude = IF g[3] = "W" THEN -DecimalDegrees(g[4])
                                 ELSE DecimalDegrees(g[4])

\* a pair of equal references, of zero distance or of zero elapsed time
Degenerate(k) ==
    \/ images[k] = images[k + 1]
    \/ PairAvailable(k) /\ (PairDistance(k) = 0 \/ PairElapsed(k) = 0)

\* C2: the loop iteration of a pair whose references are equal, whose distance
\* is zero or whose elapsed time is zero appends nothing to speed_data.
C2_DegeneratePairAddsNothing ==
    [][(pc = "loop" /\ i < Len(images) /\ Degenerate(i)) => speed_data' = speed_data]_vars

\* a run has ended in which a degenerate pair of two different readable images
\* was passed over while another pair contributed a sample
C2_Witness ==
    /\ pc = "done" /\ result # <<>>
    /\ Len(speed_data) > 0
    /\ \E k \in 1..(Len(images) - 1) :
          /\ k \notin pairs_added
          /\ images[k] # images[k + 1]
          /\ PairAvailable(k)
          /\ PairDistance(k) = 0 \/ PairElapsed(k) = 0

\* C3 as stated: every sample has a strictly positive elapsed time and a
\* strictly positive distance.
C3_SamplesPositive ==
    \A k \in 1..Len(speed_data) : speed_data[k][2] > 0 /\ speed_data[k][1] > 0

\* C3 amended: every sample has a non-zero elapsed time (it may be negative)
\* and a strictly positive distance.
C3_SamplesNonZero ==
    \A k \in 1..Len(speed_data) : speed_data[k][2] # 0 /\ speed_data[k][1] > 0

\* a sample of negative elapsed time has been appended
C3_Witness ==
    \E k \in 1..Len(speed_data) : speed_data[k][2] < 0 /\ speed_data[k][1] > 0

\* C4: a run that ends with zero or one image has written the result 0.
C4_FewImagesYieldZero ==
    (pc = "done" /\ Len(images) <= 1) => result = <<0>>

\* the pairs that survive, and the sum of their speeds
Survives(k) ==
    /\ PairAvailable(k)
    /\ images[k] # images[k + 1]
    /\ PairDistance(k) # 0
    /\ PairElapsed(k) # 0
Survivors == { k \in 1..(Len(images) - 1) : Survives(k) }
RECURSIVE SurvivorSpeedSum(_)
SurvivorSpeedSum(k) ==
    IF k = 0 THEN 0
    ELSE SurvivorSpeedSum(k - 1)
         + (IF Survives(k) THEN Abs(Quot(PairDistance(k), PairElapsed(k))) ELSE 0)

\* C5: the value written is the sum of the speeds of the surviving adjacent
\* pairs divided by their number, and 0 when no pair survives.
C5_AverageIsMean ==
    result # <<>> =>
        result[1] = IF Survivors = {} THEN 0
                    ELSE Quot(SurvivorSpeedSum(Len(images) - 1), Cardinality(Survivors))

\* a result has been written that averages two samples of different speeds
C5_Witness ==
    /\ result # <<>>
    /\ Len(speed_data) >= 2
    /\ speed_data[1][3] # speed_data[2][3]

\* C6: a pair with an image whose metadata extraction fails appends nothing:
\* every appended pair has two readable images, there are no more samples than
\* readable adjacent pairs processed, and a run that got images writes a result.
C6_MissingMetadataSkipsPair ==
    /\ \A k \in pairs_added : PairAvailable(k)
    /\ InAggregation =>
          Len(speed_data) <= Cardinality({ k \in 1..(Len(images) - 1) :
                                             k < i /\ PairAvailable(k) })
    /\ (pc = "done" /\ ~returned_none) => result # <<>>

\* a run has ended whose second image had no metadata while the first and the
\* third would have made a sample had they been paired
C6_Witness ==
    /\ pc = "done" /\ result = <<0>>
    /\ Len(images) >= 3
    /\ ~Fix(2).ok /\ Fix(1).ok /\ Fix(3).ok
    /\ images[1] # images[3]
    /\ Fix(1).timestamp # Fix(3).timestamp
    /\ haversine_distance(Fix(1).latitude, Fix(1).longitude,
                          Fix(3).latitude, Fix(3).longitude) # 0
    /\ speed_data = <<>>

\* C7: every speed appended and the average are >= 0.
C7_SpeedsNonNegative ==
    /\ \A k \in 1..Len(speed_data) : speed_data[k][3] >= 0
    /\ avg_speed >= 0
    /\ result # <<>> => result[1] >= 0

\* a result has been written that includes a pair of negative elapsed time
C7_Witness ==
    /\ result # <<>> /\ result[1] > 0
    /\ \E k \in 1..Len(speed_data) : speed_data[k][2] < 0

\* C8: calculate_speed never raises ZeroDivisionError in main: the handler is
\* never reached.
C8_NoZeroDivision == zero_division = 0

\* a pair of two different images of non-zero distance and zero elapsed time
\* has been processed
C8_Witness ==
    /\ InAggregation
    /\ \E k \in 1..(Len(images) - 1) :
          /\ k < i
          /\ images[k] # images[k + 1]
          /\ PairAvailable(k)
          /\ PairDistance(k) # 0
          /\ PairElapsed(k) = 0

\* C9: the total storage size never exceeds max_storage_size.
C9_StorageWithinLimit == total_storage_size <= max_storage_size

\* C10: images and timestamps have the same length, at most max_images, and
\* the pruning loop removes no file.
C10_ImageCountBounded ==
    /\ Len(images) = Len(timestamps)
    /\ Len(images) <= max_images
    /\ removed = 0

\* a run has ended that captured max_images images
C10_Witness ==
    /\ pc = "done" /\ result # <<>>
    /\ Len(images) = max_images

====
